---- MODULE Spec2Model ----
(***************************************************************************)
(* Connection admission, per-connection rate limiting and peer blacklisting *)
(* of examples/jsonrpsee_server_disconnect_conn.rs.                         *)
(*                                                                         *)
(* One "attempt" is one inbound connection together with the request event  *)
(* hyper hands to the service_fn closure.  Attempts are numbered by the     *)
(* value conn_id.fetch_add returns.  The closure runs on a multi-threaded   *)
(* runtime, so every access to shared state (the guard, the blacklist      *)
(* mutex, the ban channel) is a step of its own and steps of different     *)
(* attempts interleave freely.                                             *)
(***************************************************************************)
EXTENDS Integers, FiniteSets, Sequences, TLC

\* ---------------------------------------------------------------- bounds
\* Number of inbound connection attempts of one run.
NumAttempts == 3
\* Requests a client sends on one connection at most.
MaxRequests == 13

\* ------------------------------------------------------ program constants
\* Values of service_cfg.settings.max_connections the runs are configured with.
MaxConnectionsSettings == {1, 2}
\* The literal of `if count > 10` in DummyRateLimit::call.
RateLimit == 10
\* Capacity of mpsc::channel(1).
ChannelCapacity == 1

\* Remote IP addresses of the clients.
Peers == {"p1", "p2"}
NoPeer == "none"

ConnIds == 0 .. (NumAttempts - 1)

\* Peers that may open the connection numbered id.  The peers are
\* interchangeable, so the first connection is taken to come from "p1".
ClientsOf(id) == IF id = 0 THEN {"p1"} ELSE Peers

VARIABLES
    enable_ws,          \* service_cfg.settings.enable_ws
    max_connections,    \* service_cfg.settings.max_connections, capacity of the guard
    conn_id,            \* AtomicU32: next connection id
    active,             \* ConnectionGuard: permits handed out and not yet dropped
    blacklisted_peers,  \* Mutex<HashSet<IpAddr>>
    pc,                 \* per attempt: position in the dispatcher / supervisor
    remote_addr,        \* per attempt: conn.remote_addr().ip()
    conn_permit,        \* per attempt: "none", "held" or "dropped"
    response,           \* per attempt: the pre-upgrade HTTP response
    count,              \* per connection: DummyRateLimit.count
    disconnect,         \* per connection: messages buffered in the ban channel
    delegated,          \* per connection: requests passed to the inner service
    limited,            \* per connection: requests answered "RPC rate limit"
    sends,              \* per connection: try_send calls of the middleware
    rate_limited,       \* per connection: the client has been answered "RPC rate limit"
    signalled,          \* per connection: a ban signal has been put into the channel
    ended_at_limit,     \* per connection: it ended after exactly RateLimit requests
    seen_blacklisted,   \* per attempt: the peer was blacklisted when the attempt started
    seen_kicked,        \* per attempt: the peer had been rate limited and cut off by
                        \* the server when the attempt started
    upgrade_req,        \* per attempt: ws::is_upgrade_request(&req) as the closure saw it
    resolved,           \* per connection: times the select! took the conn_fut branch
    consumed,           \* per connection: values disconnect.recv() took from the channel
    inserted            \* per connection: blacklist insertions of its supervisor

vars == <<enable_ws, max_connections, conn_id, active, blacklisted_peers, pc, remote_addr,
          conn_permit, response, count, disconnect, delegated, limited, sends,
          rate_limited, signalled, ended_at_limit, seen_blacklisted, seen_kicked,
          upgrade_req, resolved, consumed, inserted>>

settings == <<enable_ws, max_connections>>
shared == <<conn_id, active, blacklisted_peers>>
middleware == <<count, disconnect, delegated, limited, sends>>
history == <<rate_limited, signalled, ended_at_limit, seen_blacklisted, seen_kicked>>
outcomes == <<resolved, consumed, inserted>>

PreUpgrade == {"idle", "accepted", "permitted", "checked", "upgrading"}
Upgraded == {"Active", "Cancelled", "ClosedNormally", "ClosedByBan"}
Terminal == {"rejected", "ClosedNormally", "ClosedByBan"}
Responses == {"none", "OK", "TOO_MANY_REQUESTS", "DENIED", "HANDSHAKE_ERROR"}

TypeOK ==
    /\ enable_ws \in BOOLEAN
    /\ max_connections \in MaxConnectionsSettings
    /\ conn_id \in 0 .. NumAttempts
    /\ active \in Int
    /\ blacklisted_peers \subseteq Peers
    /\ pc \in [ConnIds -> PreUpgrade \cup Upgraded \cup {"rejected"}]
    /\ remote_addr \in [ConnIds -> Peers \cup {NoPeer}]
    /\ conn_permit \in [ConnIds -> {"none", "held", "dropped"}]
    /\ response \in [ConnIds -> Responses]
    /\ count \in [ConnIds -> 0 .. MaxRequests]
    /\ disconnect \in [ConnIds -> 0 .. ChannelCapacity]
    /\ delegated \in [ConnIds -> 0 .. MaxRequests]
    /\ limited \in [ConnIds -> 0 .. MaxRequests]
    /\ sends \in [ConnIds -> 0 .. MaxRequests]
    /\ rate_limited \in [ConnIds -> BOOLEAN]
    /\ signalled \in [ConnIds -> BOOLEAN]
    /\ ended_at_limit \in [ConnIds -> BOOLEAN]
    /\ seen_blacklisted \in [ConnIds -> BOOLEAN]
    /\ seen_kicked \in [ConnIds -> BOOLEAN]
    /\ upgrade_req \in [ConnIds -> BOOLEAN]
    /\ resolved \in [ConnIds -> 0 .. 1]
    /\ consumed \in [ConnIds -> 0 .. 1]
    /\ inserted \in [ConnIds -> 0 .. 1]

\* State after run_server has built the guard, the id counter and the empty
\* blacklist, for each configuration.
Init ==
    /\ enable_ws \in BOOLEAN
    /\ max_connections \in MaxConnectionsSettings
    /\ conn_id = 0
    /\ active = 0
    /\ blacklisted_peers = {}
    /\ pc = [a \in ConnIds |-> "idle"]
    /\ remote_addr = [a \in ConnIds |-> NoPeer]
    /\ conn_permit = [a \in ConnIds |-> "none"]
    /\ response = [a \in ConnIds |-> "none"]
    /\ count = [a \in ConnIds |-> 0]
    /\ disconnect = [a \in ConnIds |-> 0]
    /\ delegated = [a \in ConnIds |-> 0]
    /\ limited = [a \in ConnIds |-> 0]
    /\ sends = [a \in ConnIds |-> 0]
    /\ rate_limited = [a \in ConnIds |-> FALSE]
    /\ signalled = [a \in ConnIds |-> FALSE]
    /\ ended_at_limit = [a \in ConnIds |-> FALSE]
    /\ seen_blacklisted = [a \in ConnIds |-> FALSE]
    /\ seen_kicked = [a \in ConnIds |-> FALSE]
    /\ upgrade_req = [a \in ConnIds |-> FALSE]
    /\ resolved = [a \in ConnIds |-> 0]
    /\ consumed = [a \in ConnIds |-> 0]
    /\ inserted = [a \in ConnIds |-> 0]

\* ------------------------------------------------------- ConnectionGuard
\* ConnectionGuard::try_acquire: a permit is available while fewer than
\* max_connections are outstanding.
GuardHasCapacity(n) == n < max_connections

\* Dropping a permit returns one unit of capacity.
GuardRelease(n) == n - 1

\* Has the client of peer p been answered "RPC rate limit" on a connection
\* that the server has since cut off?
Kicked(p) ==
    \E c \in ConnIds :
        /\ remote_addr[c] = p
        /\ pc[c] \in {"Cancelled", "ClosedByBan"}
        /\ rate_limited[c]

\* ------------------------------------------------------------ dispatcher
\* make_service_fn closure: a connection from peer p is accepted and numbered.
MakeService(p) ==
    /\ conn_id < NumAttempts
    /\ pc[conn_id] = "idle"
    /\ pc' = [pc EXCEPT ![conn_id] = "accepted"]
    /\ remote_addr' = [remote_addr EXCEPT ![conn_id] = p]
    /\ seen_blacklisted' = [seen_blacklisted EXCEPT ![conn_id] = (p \in blacklisted_peers)]
    /\ seen_kicked' = [seen_kicked EXCEPT ![conn_id] = Kicked(p)]
    /\ conn_id' = conn_id + 1
    /\ UNCHANGED <<settings, outcomes, upgrade_req, active, blacklisted_peers, conn_permit, response,
                   middleware, rate_limited, signalled, ended_at_limit>>

\* Mutant of TryAcquire: the blacklist is looked up before the guard.
TryAcquireAfterBlacklist(a) ==
    /\ pc[a] = "accepted"
    /\ IF remote_addr[a] \in blacklisted_peers
          THEN /\ response' = [response EXCEPT ![a] = "DENIED"]
               /\ pc' = [pc EXCEPT ![a] = "rejected"]
               /\ UNCHANGED <<active, conn_permit>>
          ELSE IF GuardHasCapacity(active)
          THEN /\ active' = active + 1
               /\ conn_permit' = [conn_permit EXCEPT ![a] = "held"]
               /\ pc' = [pc EXCEPT ![a] = "permitted"]
               /\ UNCHANGED response
          ELSE /\ response' = [response EXCEPT ![a] = "TOO_MANY_REQUESTS"]
               /\ pc' = [pc EXCEPT ![a] = "rejected"]
               /\ UNCHANGED <<active, conn_permit>>
    /\ UNCHANGED <<settings, outcomes, upgrade_req, conn_id, blacklisted_peers, remote_addr,
                   middleware, history>>

\* Mutant of TryAcquire: the result of try_acquire is not honoured, a permit
\* is taken whatever the guard's capacity.
TryAcquireUnbounded(a) ==
    /\ pc[a] = "accepted"
    /\ active' = active + 1
    /\ conn_permit' = [conn_permit EXCEPT ![a] = "held"]
    /\ pc' = [pc EXCEPT ![a] = "permitted"]
    /\ UNCHANGED <<settings, outcomes, upgrade_req, conn_id, blacklisted_peers, remote_addr, response,
                   middleware, history>>

\* Mutant of TryAcquire: the too-many-requests path gives back a permit it
\* never got.
TryAcquireReleasesOnDeny(a) ==
    /\ pc[a] = "accepted"
    /\ IF GuardHasCapacity(active)
          THEN /\ active' = active + 1
               /\ conn_permit' = [conn_permit EXCEPT ![a] = "held"]
               /\ pc' = [pc EXCEPT ![a] = "permitted"]
               /\ UNCHANGED response
          ELSE /\ response' = [response EXCEPT ![a] = "TOO_MANY_REQUESTS"]
               /\ pc' = [pc EXCEPT ![a] = "rejected"]
               /\ active' = GuardRelease(active)
               /\ UNCHANGED conn_permit
    /\ UNCHANGED <<settings, outcomes, upgrade_req, conn_id, blacklisted_peers, remote_addr,
                   middleware, history>>

\* service_fn closure, `let Some(conn_permit) = conn_guard.try_acquire() else { .. }`.
TryAcquire(a) ==
    /\ pc[a] = "accepted"
    /\ IF GuardHasCapacity(active)
          THEN /\ active' = active + 1
               /\ conn_permit' = [conn_permit EXCEPT ![a] = "held"]
               /\ pc' = [pc EXCEPT ![a] = "permitted"]
               /\ UNCHANGED response
          ELSE /\ response' = [response EXCEPT ![a] = "TOO_MANY_REQUESTS"]
               /\ pc' = [pc EXCEPT ![a] = "rejected"]
               /\ UNCHANGED <<active, conn_permit>>
    /\ UNCHANGED <<settings, outcomes, upgrade_req, conn_id, blacklisted_peers, remote_addr,
                   middleware, history>>

\* Mutant of Reject: the response is returned while the permit is kept alive.
RejectKeepsPermit(a, rp) ==
    /\ response' = [response EXCEPT ![a] = rp]
    /\ pc' = [pc EXCEPT ![a] = "rejected"]
    /\ UNCHANGED <<conn_permit, active>>

\* An early return of the closure: the response is produced and the local
\* conn_permit goes out of scope.
Reject(a, rp) ==
    /\ response' = [response EXCEPT ![a] = rp]
    /\ pc' = [pc EXCEPT ![a] = "rejected"]
    /\ conn_permit' = [conn_permit EXCEPT ![a] = "dropped"]
    /\ active' = GuardRelease(active)

\* Mutant of CheckBlacklist: the lookup is skipped.
CheckBlacklistSkipped(a) ==
    /\ pc[a] = "permitted"
    /\ pc' = [pc EXCEPT ![a] = "checked"]
    /\ UNCHANGED <<settings, outcomes, upgrade_req, shared, remote_addr, conn_permit, response,
                   middleware, history>>

\* `if blacklisted_peers.lock().unwrap().get(&remote_addr.ip()).is_some()`.
CheckBlacklist(a) ==
    /\ pc[a] = "permitted"
    /\ IF remote_addr[a] \in blacklisted_peers
          THEN Reject(a, "DENIED")
          ELSE /\ pc' = [pc EXCEPT ![a] = "checked"]
               /\ UNCHANGED <<active, conn_permit, response>>
    /\ UNCHANGED <<settings, outcomes, upgrade_req, conn_id, blacklisted_peers, remote_addr,
                   middleware, history>>

\* `if ws::is_upgrade_request(&req) && service_cfg.settings.enable_ws`: the
\* ban channel and the middleware with its counter at 0 are built, and the
\* permit moves into ServiceData; otherwise the request is denied.
CheckUpgrade(a, is_upgrade_request) ==
    /\ pc[a] = "checked"
    /\ IF is_upgrade_request /\ enable_ws
          THEN /\ pc' = [pc EXCEPT ![a] = "upgrading"]
               /\ count' = [count EXCEPT ![a] = 0]
               /\ disconnect' = [disconnect EXCEPT ![a] = 0]
               /\ UNCHANGED <<active, conn_permit, response>>
          ELSE /\ Reject(a, "DENIED")
               /\ UNCHANGED <<count, disconnect>>
    /\ upgrade_req' = [upgrade_req EXCEPT ![a] = is_upgrade_request]
    /\ UNCHANGED <<settings, outcomes, conn_id, blacklisted_peers, remote_addr,
                   delegated, limited, sends, history>>

\* Mutant of RunWebsocket: a failed handshake blacklists the peer.
RunWebsocketErrBans(a, ok) ==
    /\ pc[a] = "upgrading"
    /\ IF ok
          THEN /\ pc' = [pc EXCEPT ![a] = "Active"]
               /\ response' = [response EXCEPT ![a] = "OK"]
               /\ UNCHANGED <<active, conn_permit, blacklisted_peers>>
          ELSE /\ Reject(a, "HANDSHAKE_ERROR")
               /\ blacklisted_peers' = blacklisted_peers \cup {remote_addr[a]}
    /\ UNCHANGED <<settings, outcomes, upgrade_req, conn_id, remote_addr,
                   middleware, history>>

\* `match run_websocket(req, svc, rpc_service).await`: on Ok the supervisor
\* task is spawned with the serving future; on Err the response is returned
\* and ServiceData, with the permit, is dropped.
RunWebsocket(a, ok) ==
    /\ pc[a] = "upgrading"
    /\ IF ok
          THEN /\ pc' = [pc EXCEPT ![a] = "Active"]
               /\ response' = [response EXCEPT ![a] = "OK"]
               /\ UNCHANGED <<active, conn_permit>>
          ELSE Reject(a, "HANDSHAKE_ERROR")
    /\ UNCHANGED <<settings, outcomes, upgrade_req, conn_id, blacklisted_peers, remote_addr,
                   middleware, history>>

\* ------------------------------------------------------------ middleware
\* Mutant of TrySend: the channel is unbounded.
TrySendUnbounded(n) == n + 1

\* mpsc::Sender::try_send on the ban channel holding n messages: the message
\* is queued if there is room, and dropped otherwise.
TrySend(n) == IF n < ChannelCapacity THEN n + 1 ELSE n

\* Mutant of Call: one counter is shared by every connection being served.
CallSharedCounter(a) ==
    /\ pc[a] = "Active"
    /\ \A c \in ConnIds : count[c] < MaxRequests
    /\ LET prev == count[a] IN
        /\ count' = [c \in ConnIds |-> IF pc[c] = "Active" THEN count[c] + 1 ELSE count[c]]
        /\ IF prev > RateLimit
              THEN /\ sends' = [sends EXCEPT ![a] = @ + 1]
                   /\ disconnect' = [disconnect EXCEPT ![a] = TrySend(@)]
                   /\ signalled' = [signalled EXCEPT ![a] =
                                       @ \/ TrySend(disconnect[a]) > disconnect[a]]
                   /\ limited' = [limited EXCEPT ![a] = @ + 1]
                   /\ rate_limited' = [rate_limited EXCEPT ![a] = TRUE]
                   /\ UNCHANGED delegated
              ELSE /\ delegated' = [delegated EXCEPT ![a] = @ + 1]
                   /\ UNCHANGED <<sends, disconnect, limited, rate_limited, signalled>>
    /\ UNCHANGED <<settings, outcomes, upgrade_req, shared, pc, remote_addr, conn_permit,
                   response, ended_at_limit, seen_blacklisted, seen_kicked>>

\* Mutant of Call: the counter starts again after a request was refused.
CallResetsOnLimit(a) ==
    /\ pc[a] = "Active"
    /\ count[a] < MaxRequests
    /\ LET prev == count[a] IN
        /\ IF prev > RateLimit
              THEN /\ count' = [count EXCEPT ![a] = 0]
                   /\ sends' = [sends EXCEPT ![a] = @ + 1]
                   /\ disconnect' = [disconnect EXCEPT ![a] = TrySend(@)]
                   /\ signalled' = [signalled EXCEPT ![a] =
                                       @ \/ TrySend(disconnect[a]) > disconnect[a]]
                   /\ limited' = [limited EXCEPT ![a] = @ + 1]
                   /\ rate_limited' = [rate_limited EXCEPT ![a] = TRUE]
                   /\ UNCHANGED delegated
              ELSE /\ count' = [count EXCEPT ![a] = prev + 1]
                   /\ delegated' = [delegated EXCEPT ![a] = @ + 1]
                   /\ UNCHANGED <<sends, disconnect, limited, rate_limited, signalled>>
    /\ UNCHANGED <<settings, outcomes, upgrade_req, shared, pc, remote_addr, conn_permit,
                   response, ended_at_limit, seen_blacklisted, seen_kicked>>

\* Mutant of Call: the limit is tested with >= on the incremented counter.
CallSignalsAtLimit(a) ==
    /\ pc[a] = "Active"
    /\ count[a] < MaxRequests
    /\ LET prev == count[a] IN
        /\ count' = [count EXCEPT ![a] = prev + 1]
        /\ IF prev + 1 >= RateLimit
              THEN /\ sends' = [sends EXCEPT ![a] = @ + 1]
                   /\ disconnect' = [disconnect EXCEPT ![a] = TrySend(@)]
                   /\ signalled' = [signalled EXCEPT ![a] =
                                       @ \/ TrySend(disconnect[a]) > disconnect[a]]
                   /\ limited' = [limited EXCEPT ![a] = @ + 1]
                   /\ rate_limited' = [rate_limited EXCEPT ![a] = TRUE]
                   /\ UNCHANGED delegated
              ELSE /\ delegated' = [delegated EXCEPT ![a] = @ + 1]
                   /\ UNCHANGED <<sends, disconnect, limited, rate_limited, signalled>>
    /\ UNCHANGED <<settings, outcomes, upgrade_req, shared, pc, remote_addr, conn_permit,
                   response, ended_at_limit, seen_blacklisted, seen_kicked>>

\* Mutant of Call: the error is returned without the try_send.
CallWithoutSignal(a) ==
    /\ pc[a] = "Active"
    /\ count[a] < MaxRequests
    /\ LET prev == count[a] IN
        /\ count' = [count EXCEPT ![a] = prev + 1]
        /\ IF prev > RateLimit
              THEN /\ limited' = [limited EXCEPT ![a] = @ + 1]
                   /\ rate_limited' = [rate_limited EXCEPT ![a] = TRUE]
                   /\ UNCHANGED <<delegated, sends, disconnect, signalled>>
              ELSE /\ delegated' = [delegated EXCEPT ![a] = @ + 1]
                   /\ UNCHANGED <<sends, disconnect, limited, rate_limited, signalled>>
    /\ UNCHANGED <<settings, outcomes, upgrade_req, shared, pc, remote_addr, conn_permit,
                   response, ended_at_limit, seen_blacklisted, seen_kicked>>

\* DummyRateLimit::call: fetch_add returns the value before the increment.
Call(a) ==
    /\ pc[a] = "Active"
    /\ count[a] < MaxRequests
    /\ LET prev == count[a] IN
        /\ count' = [count EXCEPT ![a] = prev + 1]
        /\ IF prev > RateLimit
              THEN /\ sends' = [sends EXCEPT ![a] = @ + 1]
                   /\ disconnect' = [disconnect EXCEPT ![a] = TrySend(@)]
                   /\ signalled' = [signalled EXCEPT ![a] = @ \/ TrySend(disconnect[a]) > disconnect[a]]
                   /\ limited' = [limited EXCEPT ![a] = @ + 1]
                   /\ rate_limited' = [rate_limited EXCEPT ![a] = TRUE]
                   /\ UNCHANGED delegated
              ELSE /\ delegated' = [delegated EXCEPT ![a] = @ + 1]
                   /\ UNCHANGED <<sends, disconnect, limited, rate_limited, signalled>>
    /\ UNCHANGED <<settings, outcomes, upgrade_req, shared, pc, remote_addr, conn_permit,
                   response, ended_at_limit, seen_blacklisted, seen_kicked>>

\* ------------------------------------------------------------ supervisor
\* The serving future goes away, resolved or dropped: ServiceData releases
\* the permit, and the middleware with its counter and Sender is freed.
Teardown(a, state) ==
    /\ pc' = [pc EXCEPT ![a] = state]
    /\ conn_permit' = [conn_permit EXCEPT ![a] = "dropped"]
    /\ active' = GuardRelease(active)
    /\ count' = [count EXCEPT ![a] = 0]
    /\ delegated' = [delegated EXCEPT ![a] = 0]
    /\ limited' = [limited EXCEPT ![a] = 0]
    /\ sends' = [sends EXCEPT ![a] = 0]
    /\ disconnect' = [disconnect EXCEPT ![a] = 0]
    /\ ended_at_limit' = [ended_at_limit EXCEPT ![a] = (count[a] = RateLimit)]

\* Mutant of SelectConnFut: the serving future is still polled after the
\* ban branch was taken.
SelectConnFutAfterBan(a) ==
    /\ pc[a] \in {"Active", "Cancelled"}
    /\ Teardown(a, "ClosedNormally")
    /\ resolved' = [resolved EXCEPT ![a] = @ + 1]
    /\ UNCHANGED <<settings, consumed, inserted, upgrade_req, conn_id, blacklisted_peers,
                   remote_addr, response, rate_limited, signalled, seen_blacklisted,
                   seen_kicked>>

\* Mutant of SelectConnFut: a ban signal still waiting in the channel is
\* acted on although the serving future resolved first.
SelectConnFutBans(a) ==
    /\ pc[a] = "Active"
    /\ Teardown(a, "ClosedNormally")
    /\ blacklisted_peers' = IF disconnect[a] > 0
                               THEN blacklisted_peers \cup {remote_addr[a]}
                               ELSE blacklisted_peers
    /\ resolved' = [resolved EXCEPT ![a] = @ + 1]
    /\ UNCHANGED <<settings, consumed, inserted, upgrade_req, conn_id, remote_addr, response,
                   rate_limited, signalled, seen_blacklisted, seen_kicked>>

\* select! branch `_ = conn_fut => ()`: the serving future resolved first
\* (the peer disconnected or the transport failed), whether or not a ban
\* signal is waiting in the channel.
SelectConnFut(a) ==
    /\ pc[a] = "Active"
    /\ Teardown(a, "ClosedNormally")
    /\ resolved' = [resolved EXCEPT ![a] = @ + 1]
    /\ UNCHANGED <<settings, consumed, inserted, upgrade_req, conn_id, blacklisted_peers,
                   remote_addr, response, rate_limited, signalled, seen_blacklisted,
                   seen_kicked>>

\* Mutant of SelectDisconnect: the serving future is dropped but its permit
\* is not given back to the guard.
SelectDisconnectLeaksPermit(a) ==
    /\ pc[a] = "Active"
    /\ disconnect[a] > 0
    /\ pc' = [pc EXCEPT ![a] = "Cancelled"]
    /\ conn_permit' = [conn_permit EXCEPT ![a] = "dropped"]
    /\ count' = [count EXCEPT ![a] = 0]
    /\ delegated' = [delegated EXCEPT ![a] = 0]
    /\ limited' = [limited EXCEPT ![a] = 0]
    /\ sends' = [sends EXCEPT ![a] = 0]
    /\ disconnect' = [disconnect EXCEPT ![a] = 0]
    /\ ended_at_limit' = [ended_at_limit EXCEPT ![a] = (count[a] = RateLimit)]
    /\ consumed' = [consumed EXCEPT ![a] = @ + 1]
    /\ UNCHANGED <<settings, resolved, inserted, upgrade_req, shared, remote_addr, response,
                   rate_limited, signalled, seen_blacklisted, seen_kicked>>

\* select! branch `_ = disconnect.recv() => ..`: the ban signal is taken
\* from the channel and the select drops the serving future before the
\* branch body runs.
SelectDisconnect(a) ==
    /\ pc[a] = "Active"
    /\ disconnect[a] > 0
    /\ Teardown(a, "Cancelled")
    /\ consumed' = [consumed EXCEPT ![a] = @ + 1]
    /\ UNCHANGED <<settings, resolved, inserted, upgrade_req, conn_id, blacklisted_peers,
                   remote_addr, response, rate_limited, signalled, seen_blacklisted,
                   seen_kicked>>

\* Mutant of BlacklistInsert: the supervisor waits on the channel in a loop
\* and inserts again.
BlacklistInsertRepeats(a) ==
    /\ pc[a] = "Cancelled"
    /\ blacklisted_peers' = blacklisted_peers \cup {remote_addr[a]}
    /\ inserted' = [inserted EXCEPT ![a] = @ + 1]
    /\ UNCHANGED pc
    /\ UNCHANGED <<settings, resolved, consumed, upgrade_req, conn_id, active, remote_addr,
                   conn_permit, response, middleware, history>>

\* Mutant of BlacklistInsert: the branch body ends without the insertion.
BlacklistInsertSkipped(a) ==
    /\ pc[a] = "Cancelled"
    /\ pc' = [pc EXCEPT ![a] = "ClosedByBan"]
    /\ inserted' = [inserted EXCEPT ![a] = @ + 1]
    /\ UNCHANGED blacklisted_peers
    /\ UNCHANGED <<settings, resolved, consumed, upgrade_req, conn_id, active, remote_addr,
                   conn_permit, response, middleware, history>>

\* Mutant of BlacklistInsert: every connection of the banned peer is closed
\* with it.
BlacklistInsertKicksPeer(a) ==
    /\ pc[a] = "Cancelled"
    /\ blacklisted_peers' = blacklisted_peers \cup {remote_addr[a]}
    /\ pc' = [c \in ConnIds |->
                IF c = a \/ (pc[c] = "Active" /\ remote_addr[c] = remote_addr[a])
                   THEN "ClosedByBan" ELSE pc[c]]
    /\ inserted' = [inserted EXCEPT ![a] = @ + 1]
    /\ UNCHANGED <<settings, resolved, consumed, upgrade_req, conn_id, active, remote_addr,
                   conn_permit, response, middleware, history>>

\* Mutant of BlacklistInsert: the set is overwritten instead of extended.
BlacklistInsertReplaces(a) ==
    /\ pc[a] = "Cancelled"
    /\ blacklisted_peers' = {remote_addr[a]}
    /\ pc' = [pc EXCEPT ![a] = "ClosedByBan"]
    /\ inserted' = [inserted EXCEPT ![a] = @ + 1]
    /\ UNCHANGED <<settings, resolved, consumed, upgrade_req, conn_id, active, remote_addr,
                   conn_permit, response, middleware, history>>

\* Body of the ban branch: `blacklisted_peers.lock().unwrap().insert(remote_addr.ip())`.
BlacklistInsert(a) ==
    /\ pc[a] = "Cancelled"
    /\ blacklisted_peers' = blacklisted_peers \cup {remote_addr[a]}
    /\ pc' = [pc EXCEPT ![a] = "ClosedByBan"]
    /\ inserted' = [inserted EXCEPT ![a] = @ + 1]
    /\ UNCHANGED <<settings, resolved, consumed, upgrade_req, conn_id, active, remote_addr,
                   conn_permit, response, middleware, history>>

Next ==
    \/ \E p \in ClientsOf(conn_id) : MakeService(p)
    \/ \E a \in ConnIds : TryAcquire(a)
    \/ \E a \in ConnIds : CheckBlacklist(a)
    \/ \E a \in ConnIds, u \in BOOLEAN : CheckUpgrade(a, u)
    \/ \E a \in ConnIds, ok \in BOOLEAN : RunWebsocket(a, ok)
    \/ \E a \in ConnIds : Call(a)
    \/ \E a \in ConnIds : SelectConnFut(a)
    \/ \E a \in ConnIds : SelectDisconnect(a)
    \/ \E a \in ConnIds : BlacklistInsert(a)

Spec == Init /\ [][Next]_vars

\* The runtime polls a supervisor task whose select! has a ready branch, and
\* runs the branch body once the select has resolved.
Fairness ==
    \A a \in ConnIds :
        /\ WF_vars(SelectDisconnect(a))
        /\ WF_vars(BlacklistInsert(a))

FairSpec == Spec /\ Fairness

\* ----------------------------------------------------------------- claims
HoldsPermit(a) == conn_permit[a] = "held"

\* C1: in every reachable state the number of outstanding admission permits
\* is at least 0 and at most max_connections.
C1_PermitsWithinCapacity ==
    /\ active >= 0
    /\ active <= max_connections

\* C1 witness: the guard is full while one connection has been closed
\* normally and another one by a ban.
C1_Witness ==
    /\ active = max_connections
    /\ \E a, b \in ConnIds : pc[a] = "ClosedNormally" /\ pc[b] = "ClosedByBan"

\* C2: try_acquire succeeds exactly when the active count is below
\* max_connections; at max_connections the attempt is answered with
\* TOO_MANY_REQUESTS and the active count, the blacklist, the permits and
\* every other attempt and connection are as they were before.
C2_AcquireOrDenyCleanly ==
    [][\A a \in ConnIds :
         (pc[a] = "accepted" /\ pc'[a] # "accepted") =>
            IF active < max_connections
               THEN /\ pc'[a] = "permitted"
                    /\ conn_permit'[a] = "held"
                    /\ active' = active + 1
                    /\ response'[a] = "none"
               ELSE /\ pc'[a] = "rejected"
                    /\ response'[a] = "TOO_MANY_REQUESTS"
                    /\ active' = active
                    /\ blacklisted_peers' = blacklisted_peers
                    /\ conn_permit' = conn_permit
                    /\ \A b \in ConnIds \ {a} : pc'[b] = pc[b]
      ]_vars

\* C2 witness: an attempt was turned away with TOO_MANY_REQUESTS at a full
\* guard and holds nothing.
C2_Witness ==
    \E a \in ConnIds :
        /\ pc[a] = "rejected"
        /\ response[a] = "TOO_MANY_REQUESTS"
        /\ conn_permit[a] = "none"
        /\ active = max_connections

\* C3: the active count equals the number of attempts and connections that
\* hold a permit; a permit is held from admission until the rejection or the
\* end of the connection and is dropped then, on a normal close as on a ban;
\* once everything admitted is in a terminal state the count is 0.
C3_PermitReleasedOnce ==
    /\ active = Cardinality({a \in ConnIds : HoldsPermit(a)})
    /\ \A a \in ConnIds :
          /\ HoldsPermit(a) <=> pc[a] \in {"permitted", "checked", "upgrading", "Active"}
          /\ pc[a] \in {"ClosedNormally", "Cancelled", "ClosedByBan"}
                => conn_permit[a] = "dropped"
    /\ (\A a \in ConnIds : conn_permit[a] # "none" => pc[a] \in Terminal) => active = 0

\* C3 witness: a connection closed normally and one closed by ban have both
\* dropped their permits and nothing is held any more.
C3_Witness ==
    /\ \E a, b \in ConnIds :
          /\ pc[a] = "ClosedNormally" /\ conn_permit[a] = "dropped"
          /\ pc[b] = "ClosedByBan" /\ conn_permit[b] = "dropped"
    /\ \A a \in ConnIds : pc[a] \in Terminal
    /\ active = 0

\* C4: an attempt that starts when its peer is already in the blacklist
\* never gets past the blacklist check: it is never upgraded and never
\* becomes an Active connection, and ends rejected.
C4_BlacklistedPeerDenied ==
    \A a \in ConnIds :
        seen_blacklisted[a] =>
            /\ pc[a] \in {"accepted", "permitted", "rejected"}
            /\ pc[a] = "rejected" => response[a] \in {"DENIED", "TOO_MANY_REQUESTS"}

\* C4 witness: such an attempt has been answered DENIED.
C4_Witness ==
    \E a \in ConnIds :
        /\ seen_blacklisted[a]
        /\ pc[a] = "rejected"
        /\ response[a] = "DENIED"
        /\ remote_addr[a] \in blacklisted_peers

\* C5 (as claimed): on every connection the first RateLimit requests are
\* delegated and every request after them, starting with request
\* RateLimit + 1, is answered with the rate-limit error.
C5_ErrorFromRequestAfterLimit ==
    \A a \in ConnIds :
        pc[a] = "Active" =>
            IF count[a] <= RateLimit
               THEN delegated[a] = count[a] /\ limited[a] = 0
               ELSE delegated[a] = RateLimit /\ limited[a] = count[a] - RateLimit

\* C6 (as claimed): an attempt that starts after its peer was answered the
\* rate-limit error and had its connection cut off by the server is
\* rejected before upgrade.
C6_ReconnectAfterKickRejected ==
    \A a \in ConnIds :
        seen_kicked[a] => pc[a] \in {"accepted", "permitted", "rejected"}

\* C7: a connection that has had at most RateLimit requests has sent
\* nothing on its ban channel; when it ends after exactly RateLimit requests
\* it ends ClosedNormally, that step leaves the blacklist as it was, and it
\* stays ClosedNormally with no signal ever sent.
C7_AtLimitNoBan ==
    [][\A a \in ConnIds :
         /\ (pc[a] = "Active" /\ count[a] <= RateLimit) =>
                (sends[a] = 0 /\ disconnect[a] = 0 /\ ~signalled[a])
         /\ (pc[a] = "Active" /\ count[a] = RateLimit /\ pc'[a] # "Active") =>
                (pc'[a] = "ClosedNormally" /\ blacklisted_peers' = blacklisted_peers)
         /\ ended_at_limit[a] =>
                (pc[a] = "ClosedNormally" /\ pc'[a] = "ClosedNormally" /\ ~signalled'[a])
      ]_vars

\* C7 witness: a connection ended after exactly RateLimit requests, closed
\* normally, and its peer is not blacklisted.
C7_Witness ==
    \E a \in ConnIds :
        /\ ended_at_limit[a]
        /\ pc[a] = "ClosedNormally"
        /\ ~signalled[a]
        /\ remote_addr[a] \notin blacklisted_peers

\* C8: every step leaves the blacklist a superset of what it was, and
\* inserting a peer that is already present leaves it unchanged.
C8_BlacklistMonotonic ==
    [][/\ blacklisted_peers \subseteq blacklisted_peers'
       /\ \A a \in ConnIds :
             (pc[a] = "Cancelled" /\ pc'[a] = "ClosedByBan"
                 /\ remote_addr[a] \in blacklisted_peers)
                => blacklisted_peers' = blacklisted_peers
      ]_vars

\* C8 witness: two connections of one peer were both closed by ban, and the
\* blacklist holds that peer once.
C8_Witness ==
    \E a, b \in ConnIds :
        /\ a # b
        /\ pc[a] = "ClosedByBan" /\ pc[b] = "ClosedByBan"
        /\ remote_addr[a] = remote_addr[b]
        /\ blacklisted_peers = {remote_addr[a]}

\* C9: under fair scheduling of the supervisor, an Active connection one of
\* whose requests was answered with the rate-limit error eventually leaves
\* Active with its permit released.
C9_RateLimitedEventuallyClosed ==
    \A a \in ConnIds :
        (pc[a] = "Active" /\ rate_limited[a])
            ~> (pc[a] \in {"Cancelled", "ClosedByBan", "ClosedNormally"}
                    /\ conn_permit[a] = "dropped")

\* C9 witness: a rate-limited connection was cut off by the supervisor.
C9_Witness ==
    \E a \in ConnIds :
        /\ rate_limited[a]
        /\ pc[a] = "ClosedByBan"
        /\ conn_permit[a] = "dropped"

\* C10: the step in which the serving future resolves first, ending the
\* connection as ClosedNormally, leaves the blacklist unchanged, and the
\* connection stays ClosedNormally, also when a ban signal was waiting.
C10_NormalCloseKeepsBlacklist ==
    [][\A a \in ConnIds :
         /\ (pc[a] = "Active" /\ pc'[a] = "ClosedNormally") =>
                blacklisted_peers' = blacklisted_peers
         /\ pc[a] = "ClosedNormally" => pc'[a] = "ClosedNormally"
      ]_vars

\* C10 witness: a connection closed normally although its ban signal had
\* been sent, and its peer is not blacklisted.
C10_Witness ==
    \E a \in ConnIds :
        /\ pc[a] = "ClosedNormally"
        /\ signalled[a]
        /\ remote_addr[a] \notin blacklisted_peers

\* C11: for each connection the supervisor takes at most one value from the
\* ban channel and performs at most one blacklist insertion, however many
\* requests above the limit the connection sent; the channel and the
\* supervisor together never hold more than one ban signal.
C11_OneConsumeOneInsert ==
    \A a \in ConnIds :
        /\ consumed[a] <= 1
        /\ inserted[a] <= consumed[a]
        /\ disconnect[a] + consumed[a] <= 1

C11_Witness ==
    \E a \in ConnIds :
        /\ pc[a] = "ClosedByBan"
        /\ rate_limited[a]
        /\ consumed[a] = 1
        /\ inserted[a] = 1

\* C12: a step that rejects an attempt holding a permit (blacklisted peer,
\* upgrade not requested or disabled, failed handshake) gives the permit
\* back: the guard's count drops by one, to the number of permits the other
\* attempts hold, and the attempt never becomes a connection.
C12_RejectionReleasesPermit ==
    [][\A a \in ConnIds :
          /\ (HoldsPermit(a) /\ pc'[a] = "rejected") =>
                /\ active' = active - 1
                /\ active' = Cardinality({b \in ConnIds \ {a} : HoldsPermit(b)})
                /\ conn_permit'[a] = "dropped"
                /\ response'[a] \in {"DENIED", "HANDSHAKE_ERROR"}
                /\ count'[a] = 0 /\ disconnect'[a] = 0
                /\ \A b \in ConnIds \ {a} : conn_permit'[b] = conn_permit[b]
          /\ pc[a] = "rejected" => pc'[a] = "rejected" /\ conn_permit'[a] = conn_permit[a]
      ]_vars

C12_Witness ==
    \E a, b, c \in ConnIds :
        /\ pc[a] = "ClosedByBan"
        /\ pc[b] = "rejected" /\ response[b] = "DENIED" /\ seen_blacklisted[b]
        /\ conn_permit[b] = "dropped"
        /\ pc[c] = "rejected" /\ response[c] = "HANDSHAKE_ERROR"
        /\ conn_permit[c] = "dropped"
        /\ active = 0

\* C13: when the ban branch wins, the serving future is dropped first and
\* the peer is inserted next: a connection closed by ban has its peer in the
\* blacklist, and from the step that took the ban signal on, no request of
\* the connection is counted, delegated or refused.
C13_BanDropsThenInserts ==
    [][\A a \in ConnIds :
          /\ pc'[a] = "ClosedByBan" => remote_addr'[a] \in blacklisted_peers'
          /\ (pc[a] = "Active" /\ pc'[a] = "Cancelled") =>
                /\ conn_permit'[a] = "dropped"
                /\ blacklisted_peers' = blacklisted_peers
          /\ (pc[a] = "Cancelled" /\ pc'[a] # "Cancelled") =>
                /\ pc'[a] = "ClosedByBan"
                /\ blacklisted_peers' = blacklisted_peers \cup {remote_addr[a]}
          /\ pc[a] \in {"Cancelled", "ClosedByBan"} =>
                /\ count'[a] = count[a]
                /\ delegated'[a] = delegated[a]
                /\ limited'[a] = limited[a]
                /\ sends'[a] = sends[a]
      ]_vars

C13_Witness ==
    \E a \in ConnIds :
        /\ pc[a] = "ClosedByBan"
        /\ remote_addr[a] \in blacklisted_peers
        /\ conn_permit[a] = "dropped"
        /\ \E b \in ConnIds \ {a} : seen_blacklisted[b] /\ response[b] = "DENIED"

\* C14: the select! of a connection resolves once: an Active connection
\* ends either closed normally or closed by ban, a closed connection never
\* changes state again, and no connection has taken both branches.
C14_ClosedExactlyOnce ==
    [][\A a \in ConnIds :
          /\ pc[a] = "ClosedNormally" => pc'[a] = "ClosedNormally"
          /\ pc[a] = "ClosedByBan" => pc'[a] = "ClosedByBan"
          /\ pc[a] = "Cancelled" => pc'[a] \in {"Cancelled", "ClosedByBan"}
          /\ pc[a] = "Active" => pc'[a] \in {"Active", "ClosedNormally", "Cancelled"}
          /\ resolved'[a] + consumed'[a] <= 1
          /\ pc'[a] = "ClosedNormally" => resolved'[a] = 1 /\ inserted'[a] = 0
          /\ pc'[a] \in {"Cancelled", "ClosedByBan"} => consumed'[a] = 1
      ]_vars

C14_Witness ==
    \E a, b \in ConnIds :
        /\ pc[a] = "ClosedNormally" /\ signalled[a] /\ resolved[a] = 1
        /\ pc[b] = "ClosedByBan" /\ consumed[b] = 1

\* C15 as stated: the middleware calls try_send at most once in the life of
\* a connection.
C15_AtMostOneSendAttempt ==
    \A a \in ConnIds : sends[a] <= 1

\* C15 amended: the middleware calls try_send on every request above the
\* limit, and at most one of the calls succeeds: a value enters the ban
\* channel only if the channel is empty and has never held a value before.
C15_AtMostOneSendSucceeds ==
    [][\A a \in ConnIds :
          /\ disconnect'[a] <= ChannelCapacity
          /\ disconnect'[a] > disconnect[a] =>
                /\ disconnect[a] = 0
                /\ ~signalled[a]
                /\ consumed[a] = 0
                /\ sends'[a] = sends[a] + 1
      ]_vars

C15_Witness ==
    \E a \in ConnIds :
        /\ pc[a] = "Active"
        /\ sends[a] >= 2
        /\ disconnect[a] = 1
        /\ signalled[a]

\* C16: the blacklist changes only in the ban branch of a supervisor that
\* took a ban signal; admission checks, failed handshakes and normal closes
\* leave it alone, so every blacklisted peer has a connection closed by ban
\* whose requests went over the limit.
C16_BlacklistOnlyBySupervisor ==
    [][/\ blacklisted_peers' # blacklisted_peers =>
              \E a \in ConnIds :
                  /\ pc[a] = "Cancelled" /\ pc'[a] = "ClosedByBan"
                  /\ consumed[a] = 1
                  /\ rate_limited[a]
                  /\ blacklisted_peers' = blacklisted_peers \cup {remote_addr[a]}
       /\ \A p \in blacklisted_peers' :
              \E a \in ConnIds :
                  /\ remote_addr'[a] = p
                  /\ pc'[a] = "ClosedByBan"
                  /\ rate_limited'[a] /\ signalled'[a]
      ]_vars

C16_Witness ==
    \E a, b, c \in ConnIds :
        /\ pc[a] = "ClosedByBan" /\ remote_addr[a] \in blacklisted_peers
        /\ pc[b] = "ClosedNormally" /\ remote_addr[b] \notin blacklisted_peers
        /\ response[c] = "HANDSHAKE_ERROR" /\ remote_addr[c] \notin blacklisted_peers

\* C17: rate limiting is local to a connection: a connection starts with
\* its own counter at 0 and its own empty ban channel, a request on it is
\* decided by its own counter alone, and changes neither the counter, the
\* ban channel nor the tallies of any other connection.
C17_RateLimitPerConnection ==
    [][\A a \in ConnIds :
          /\ (pc[a] # "Active" /\ pc'[a] = "Active") =>
                /\ count'[a] = 0 /\ disconnect'[a] = 0 /\ sends'[a] = 0
                /\ delegated'[a] = 0 /\ limited'[a] = 0
                /\ ~rate_limited'[a] /\ ~signalled'[a]
          /\ (pc[a] = "Active" /\ count'[a] = count[a] + 1) =>
                /\ IF count[a] > RateLimit
                      THEN limited'[a] = limited[a] + 1 /\ delegated'[a] = delegated[a]
                      ELSE delegated'[a] = delegated[a] + 1 /\ limited'[a] = limited[a]
                /\ \A b \in ConnIds \ {a} :
                      /\ count'[b] = count[b]
                      /\ disconnect'[b] = disconnect[b]
                      /\ sends'[b] = sends[b]
                      /\ delegated'[b] = delegated[b]
                      /\ limited'[b] = limited[b]
                      /\ rate_limited'[b] = rate_limited[b]
                      /\ signalled'[b] = signalled[b]
                      /\ pc'[b] = pc[b]
      ]_vars

C17_Witness ==
    \E a, b \in ConnIds :
        /\ a # b
        /\ remote_addr[a] = remote_addr[b]
        /\ pc[a] = "Active" /\ pc[b] = "Active"
        /\ count[a] > RateLimit + 1 /\ rate_limited[a] /\ disconnect[a] = 1
        /\ count[b] \in 1 .. RateLimit /\ delegated[b] = count[b]
        /\ ~rate_limited[b] /\ disconnect[b] = 0

\* C18: the closure decides in a fixed order: too many requests when the
\* guard is at capacity, whoever the peer is; otherwise denied when the peer
\* is blacklisted; otherwise the upgrade proceeds when the request asks for
\* it and enable_ws is set; otherwise denied.
C18_ResponseOrder ==
    [][\A a \in ConnIds :
          /\ (pc[a] = "accepted" /\ pc'[a] # "accepted") =>
                IF active >= max_connections
                   THEN pc'[a] = "rejected" /\ response'[a] = "TOO_MANY_REQUESTS"
                   ELSE pc'[a] = "permitted" /\ response'[a] = "none"
          /\ (pc[a] = "permitted" /\ pc'[a] # "permitted") =>
                IF remote_addr[a] \in blacklisted_peers
                   THEN pc'[a] = "rejected" /\ response'[a] = "DENIED"
                   ELSE pc'[a] = "checked" /\ response'[a] = "none"
          /\ (pc[a] = "checked" /\ pc'[a] # "checked") =>
                IF upgrade_req'[a] /\ enable_ws
                   THEN pc'[a] = "upgrading" /\ response'[a] = "none"
                   ELSE pc'[a] = "rejected" /\ response'[a] = "DENIED"
          /\ (pc[a] = "upgrading" /\ pc'[a] = "Active") => response'[a] = "OK"
          /\ response'[a] = "OK" => pc'[a] \in Upgraded
      ]_vars

C18_Witness ==
    \E a \in ConnIds :
        /\ seen_blacklisted[a]
        /\ remote_addr[a] \in blacklisted_peers
        /\ pc[a] = "rejected"
        /\ response[a] = "TOO_MANY_REQUESTS"

\* C19: while a connection is served its counter grows by exactly one with
\* each request, refused ones included, and never goes down, so after the
\* first refused request every request is refused and none is delegated.
C19_RateLimitSticky ==
    [][\A a \in ConnIds :
          (pc[a] = "Active" /\ pc'[a] = "Active") =>
              /\ count'[a] \in {count[a], count[a] + 1}
              /\ count'[a] = delegated'[a] + limited'[a]
              /\ delegated'[a] >= delegated[a]
              /\ limited'[a] >= limited[a]
              /\ rate_limited[a] => rate_limited'[a] /\ delegated'[a] = delegated[a]
              /\ rate_limited'[a] <=> limited'[a] > 0
      ]_vars

C19_Witness ==
    \E a \in ConnIds :
        /\ pc[a] = "Active"
        /\ limited[a] >= 2
        /\ delegated[a] = RateLimit + 1
        /\ count[a] = delegated[a] + limited[a]

\* C20: a ban ends only the connection whose ban signal was taken: the
\* steps of its supervisor leave every other connection as it was, and a
\* connection of a blacklisted peer stays Active with its permit, can still
\* be served, and leaves Active only by its own normal close or its own ban
\* signal.
C20_BanIsLocal ==
    [][\A a \in ConnIds :
          /\ (\/ pc[a] = "Active" /\ pc'[a] = "Cancelled"
              \/ pc[a] = "Cancelled" /\ pc'[a] = "ClosedByBan") =>
                \A b \in ConnIds \ {a} :
                    /\ pc'[b] = pc[b]
                    /\ conn_permit'[b] = conn_permit[b]
                    /\ count'[b] = count[b]
                    /\ disconnect'[b] = disconnect[b]
          /\ (pc[a] = "Active" /\ pc'[a] # "Active") =>
                \/ pc'[a] = "ClosedNormally"
                \/ pc'[a] = "Cancelled" /\ disconnect[a] > 0
          /\ pc'[a] = "Active" => conn_permit'[a] = "held"
          /\ (/\ pc[a] = "Active"
              /\ remote_addr[a] \in blacklisted_peers
              /\ count[a] < MaxRequests) => ENABLED Call(a)
      ]_vars

C20_Witness ==
    \E a, b \in ConnIds :
        /\ a # b
        /\ remote_addr[a] = remote_addr[b]
        /\ pc[a] = "ClosedByBan"
        /\ remote_addr[b] \in blacklisted_peers
        /\ pc[b] = "Active"
        /\ conn_permit[b] = "held"
        /\ delegated[b] > 0

====
